---- MODULE Spec2Model ----
(***************************************************************************)
(* libobjecttracker: ObjectTracker::update / runICP / initialize           *)
(* (src/src/object_tracker.cpp) as a state machine.                        *)
(*                                                                         *)
(* Lengths are in millimetres, squared distances in mm^2, time in clock    *)
(* ticks.  A rigid transform is kept as the six numbers that               *)
(* pcl::getTranslationAndEulerAngles reads off it.  The registration       *)
(* primitive (pcl::IterativeClosestPoint) and the kd-tree are external:    *)
(* what they return for a frame is the frame's input, drawn from bounded   *)
(* sets.                                                                   *)
(***************************************************************************)
EXTENDS Integers, Sequences, FiniteSets, TLC

VARIABLES
  m_initialized,  \* ObjectTracker::m_initialized
  m_objects,      \* ObjectTracker::m_objects, a sequence of Object records
  now,            \* last reading of std::chrono::high_resolution_clock
  call            \* what the last update() call read, computed and printed

vars == <<m_initialized, m_objects, now, call>>

---------------------------------------------------------------------------
(* Bounds of the model *)

MaxTime == 3
MaxCoord == 2
MultiMaxTime == 2

(* Program constants *)

N_YAW == 20
INIT_MAX_HAUSDORFF_DIST2 == 64
DBL_MAX == 1000
Epoch == 0

---------------------------------------------------------------------------
(* Rigid transforms *)

Coords == {"x", "y", "z", "roll", "pitch", "yaw"}

Origin == [x |-> 0, y |-> 0, z |-> 0, roll |-> 0, pitch |-> 0, yaw |-> 0]

Axis(c, v) == [Origin EXCEPT ![c] = v]

Poses == {Origin} \cup {Axis(c, v) : c \in Coords, v \in 1..MaxCoord}

CoarsePoses == {Origin, Axis("x", 1)}

GetTranslationAndEulerAngles(t) ==
  [x |-> t.x, y |-> t.y, z |-> t.z, roll |-> t.roll, pitch |-> t.pitch, yaw |-> t.yaw]

Abs(n) == IF n < 0 THEN -n ELSE n

\* F applied to the value of v, with v evaluated once
Bind(v, F(_)) == CHOOSE out \in {F(x) : x \in {v}} : TRUE

---------------------------------------------------------------------------
(* Configuration registries and the objects handed to the constructor *)

DynamicsConfigurations ==
  << [maxXVelocity |-> 1, maxYVelocity |-> 2, maxZVelocity |-> 1,
      maxRollRate |-> 1, maxPitchRate |-> 1, maxYawRate |-> 2,
      maxRoll |-> 2, maxPitch |-> 2],
     [maxXVelocity |-> 2, maxYVelocity |-> 1, maxZVelocity |-> 1,
      maxRollRate |-> 1, maxPitchRate |-> 1, maxYawRate |-> 1,
      maxRoll |-> 1, maxPitch |-> 1] >>

\* a marker configuration is represented by its number of points
MarkerConfigurations == << 1, 2 >>

Object(markerConfigurationIdx, dynamicsConfigurationIdx, initialTransformation) ==
  [m_markerConfigurationIdx   |-> markerConfigurationIdx,
   m_dynamicsConfigurationIdx |-> dynamicsConfigurationIdx,
   m_lastTransformation       |-> initialTransformation,
   m_lastValidTransform       |-> Epoch,
   m_lastTransformationValid  |-> FALSE]

transformation(object) == object.m_lastTransformation

lastTransformationValid(object) == object.m_lastTransformationValid

---------------------------------------------------------------------------
(* Floating-point division and comparison, lines 208-224 and 233-255 *)

\* variant: a division guarded against dt = 0
DivGuarded(d, dt) ==
  IF dt # 0 THEN [kind |-> "fin", num |-> d, den |-> dt]
  ELSE [kind |-> "fin", num |-> 0, den |-> 1]

Div(d, dt) ==
  IF dt # 0 THEN [kind |-> "fin", num |-> d, den |-> dt]
  ELSE IF d = 0 THEN [kind |-> "nan", num |-> 0, den |-> 0]
  ELSE [kind |-> "inf", num |-> d, den |-> 0]

FabsLT(r, bound) ==
  r.kind = "fin" /\ Abs(r.num) < bound * Abs(r.den)

FabsGE(r, bound) ==
  \/ r.kind = "inf"
  \/ r.kind = "fin" /\ Abs(r.num) >= bound * Abs(r.den)

---------------------------------------------------------------------------
(* ObjectTracker::initialize, lines 67-140 *)

Hypotheses == 0..(N_YAW - 1)

\* getFitnessScore() of a run that found no correspondence is the largest double
NoCorrespondence == [err |-> DBL_MAX, final |-> Origin, converged |-> FALSE]

\* pcl::getTransformation(x, y, z, roll, pitch, yaw); seed angles are counted
\* in units of 2*M_PI / N_YAW
getTransformation(x, y, z, roll, pitch, yaw) ==
  [x |-> x, y |-> y, z |-> z, roll |-> roll, pitch |-> pitch, yaw |-> yaw]

\* lines 114-116: the angle named yaw is handed over as the fourth argument
TryMatrix(center, i) ==
  LET yaw == i
  IN getTransformation(center.x, center.y, center.z, yaw, 0, 0)

\* icp.align(result, tryMatrix) of the i-th run on this frame's cloud: the
\* fitness score, the final transformation and hasConverged()
IcpAlign(aligns, i) ==
  IF i = aligns.a THEN aligns.ra
  ELSE IF i = aligns.b THEN aligns.rb
  ELSE NoCorrespondence

RECURSIVE YawSearch(_, _, _, _, _)
YawSearch(i, bestErr, T, markers, tried) ==
  IF i >= N_YAW THEN [bestErr |-> bestErr, T |-> T, tried |-> tried]
  ELSE LET tryMatrix == TryMatrix(markers.center, i)
           run == IcpAlign(markers.aligns, i)
       IN IF run.err < bestErr
          THEN YawSearch(i + 1, run.err, run.final, markers, Append(tried, tryMatrix))
          ELSE YawSearch(i + 1, bestErr, T, markers, Append(tried, tryMatrix))

BadFit(nearestSqrDist) == nearestSqrDist > INIT_MAX_HAUSDORFF_DIST2

\* variant: the flag is assigned from the last marker tested
CheckFitLast(k, objNpts, sqrDist, allFitsGood) == ~BadFit(sqrDist[objNpts])

RECURSIVE CheckFit(_, _, _, _)
CheckFit(k, objNpts, sqrDist, allFitsGood) ==
  IF k > objNpts THEN allFitsGood
  ELSE CheckFit(k + 1, objNpts, sqrDist,
                IF BadFit(sqrDist[k]) THEN FALSE ELSE allFitsGood)

\* variant: the candidate is written only if the object's own markers fit
InitObjectStaged(object, markers, allFitsGood) ==
  LET objNpts == MarkerConfigurations[object.m_markerConfigurationIdx]
      objCenter == object.m_lastTransformation
  IN Bind(YawSearch(0, DBL_MAX, object.m_lastTransformation, markers, <<>>),
          LAMBDA best :
            [object |-> IF CheckFit(1, objNpts, markers.sqrDist, TRUE)
                        THEN [object EXCEPT !.m_lastTransformation = best.T]
                        ELSE object,
             allFitsGood |-> CheckFit(1, objNpts, markers.sqrDist, allFitsGood),
             log |-> [objCenter |-> [x |-> objCenter.x, y |-> objCenter.y,
                                     z |-> objCenter.z],
                      center |-> markers.center,
                      aligns |-> markers.aligns,
                      tried |-> best.tried,
                      bestErr |-> best.bestErr,
                      sqrDist |-> markers.sqrDist]])

InitObject(object, markers, allFitsGood) ==
  LET objNpts == MarkerConfigurations[object.m_markerConfigurationIdx]
      objCenter == object.m_lastTransformation
  IN Bind(YawSearch(0, DBL_MAX, object.m_lastTransformation, markers, <<>>),
          LAMBDA best :
            [object |-> [object EXCEPT !.m_lastTransformation = best.T],
             allFitsGood |-> CheckFit(1, objNpts, markers.sqrDist, allFitsGood),
             log |-> [objCenter |-> [x |-> objCenter.x, y |-> objCenter.y,
                                     z |-> objCenter.z],
                      center |-> markers.center,
                      aligns |-> markers.aligns,
                      tried |-> best.tried,
                      bestErr |-> best.bestErr,
                      sqrDist |-> markers.sqrDist]])

RECURSIVE InitLoop(_, _, _, _, _)
InitLoop(i, objects, allFitsGood, log, markers) ==
  IF i > Len(objects) THEN [objects |-> objects, ret |-> allFitsGood, log |-> log]
  ELSE Bind(InitObject(objects[i], markers[i], allFitsGood),
            LAMBDA r : InitLoop(i + 1, [objects EXCEPT ![i] = r.object],
                                r.allFitsGood, Append(log, r.log), markers))

initialize(objects, markers) == InitLoop(1, objects, TRUE, <<>>, markers)

---------------------------------------------------------------------------
(* The tracking loop of ObjectTracker::runICP, lines 170-261 *)

\* variant: the flag is not cleared at the top of the loop body
ClearValidMissing(object) == object

ClearValid(object) == [object EXCEPT !.m_lastTransformationValid = FALSE]

ElapsedSeconds(stamp, object) == stamp - object.m_lastValidTransform

MaxCorrespondenceDistance(dynConf, dt) == dynConf.maxXVelocity * dt

Rates(new, last, dt) ==
  [vx     |-> Div(new.x - last.x, dt),
   vy     |-> Div(new.y - last.y, dt),
   vz     |-> Div(new.z - last.z, dt),
   wroll  |-> Div(new.roll - last.roll, dt),
   wpitch |-> Div(new.pitch - last.pitch, dt),
   wyaw   |-> Div(new.yaw - last.yaw, dt)]

FabsLE(r, bound) ==
  r.kind = "fin" /\ Abs(r.num) <= bound * Abs(r.den)

\* variant: every bound is inclusive
DynamicsCheckInclusive(r, new, dynConf) ==
  /\ FabsLE(r.vx, dynConf.maxXVelocity)
  /\ FabsLE(r.vy, dynConf.maxYVelocity)
  /\ FabsLE(r.vz, dynConf.maxZVelocity)
  /\ FabsLE(r.wroll, dynConf.maxRollRate)
  /\ FabsLE(r.wpitch, dynConf.maxPitchRate)
  /\ FabsLE(r.wyaw, dynConf.maxYawRate)
  /\ Abs(new.roll) <= dynConf.maxRoll
  /\ Abs(new.pitch) <= dynConf.maxPitch

\* variant: the yaw rate is not gated
DynamicsCheckNoYawRate(r, new, dynConf) ==
  /\ FabsLT(r.vx, dynConf.maxXVelocity)
  /\ FabsLT(r.vy, dynConf.maxYVelocity)
  /\ FabsLT(r.vz, dynConf.maxZVelocity)
  /\ FabsLT(r.wroll, dynConf.maxRollRate)
  /\ FabsLT(r.wpitch, dynConf.maxPitchRate)
  /\ Abs(new.roll) < dynConf.maxRoll
  /\ Abs(new.pitch) < dynConf.maxPitch

DynamicsCheck(r, new, dynConf) ==
  /\ FabsLT(r.vx, dynConf.maxXVelocity)
  /\ FabsLT(r.vy, dynConf.maxYVelocity)
  /\ FabsLT(r.vz, dynConf.maxZVelocity)
  /\ FabsLT(r.wroll, dynConf.maxRollRate)
  /\ FabsLT(r.wpitch, dynConf.maxPitchRate)
  /\ FabsLT(r.wyaw, dynConf.maxYawRate)
  /\ Abs(new.roll) < dynConf.maxRoll
  /\ Abs(new.pitch) < dynConf.maxPitch

\* variant: the accept branch does not store the registration result
CommitStale(object, tROTA, stamp) ==
  [object EXCEPT !.m_lastValidTransform = stamp,
                 !.m_lastTransformationValid = TRUE]

Commit(object, tROTA, stamp) ==
  [object EXCEPT !.m_lastTransformation = tROTA,
                 !.m_lastValidTransform = stamp,
                 !.m_lastTransformationValid = TRUE]

\* lines 190-195: nothing is written to the object before continue
NotConverged(object, stamp) == object

\* variant: the time stamp is taken before the gate is decided
RejectedStamped(object, stamp) == [object EXCEPT !.m_lastValidTransform = stamp]

\* lines 230-260: the else branch writes nothing to the object
Rejected(object, stamp) == object

\* one line written to the stream: a quantity, its value and the bound
Line(cond, name, value, bound) ==
  IF cond THEN <<[text |-> name, value |-> value, bound |-> bound]>> ELSE <<>>

Text(string) == [text |-> string]

DynamicsReport(r, new, dynConf) ==
  <<Text("Dynamic check failed")>>
  \o Line(FabsGE(r.vx, dynConf.maxXVelocity), "vx", r.vx, dynConf.maxXVelocity)
  \o Line(FabsGE(r.vy, dynConf.maxYVelocity), "vy", r.vy, dynConf.maxYVelocity)
  \o Line(FabsGE(r.vz, dynConf.maxZVelocity), "vz", r.vz, dynConf.maxZVelocity)
  \o Line(FabsGE(r.wroll, dynConf.maxRollRate), "wroll", r.wroll, dynConf.maxRollRate)
  \o Line(FabsGE(r.wpitch, dynConf.maxPitchRate), "wpitch", r.wpitch, dynConf.maxPitchRate)
  \o Line(FabsGE(r.wyaw, dynConf.maxYawRate), "wyaw", r.wyaw, dynConf.maxYawRate)
  \o Line(Abs(new.roll) >= dynConf.maxRoll, "roll", new.roll, dynConf.maxRoll)
  \o Line(Abs(new.pitch) >= dynConf.maxPitch, "pitch", new.pitch, dynConf.maxPitch)

TrackObject(object, stamp, align) ==
  LET cleared == ClearValid(object)
      dt == ElapsedSeconds(stamp, cleared)
      dynConf == DynamicsConfigurations[cleared.m_dynamicsConfigurationIdx]
      radius == MaxCorrespondenceDistance(dynConf, dt)
      base == [dt |-> dt, maxCorrespondenceDistance |-> radius,
               guess |-> cleared.m_lastTransformation,
               converged |-> align.converged, final |-> align.final]
  IN IF ~align.converged
     THEN [object |-> NotConverged(cleared, stamp),
           log |-> [base EXCEPT !.final = Origin]
                   @@ [branch |-> "continue", cout |-> <<Text("ICP did not converge!")>>]]
     ELSE LET tROTA == align.final
              new == GetTranslationAndEulerAngles(tROTA)
              last == GetTranslationAndEulerAngles(cleared.m_lastTransformation)
              r == Rates(new, last, dt)
          IN IF DynamicsCheck(r, new, dynConf)
             THEN [object |-> Commit(cleared, tROTA, stamp),
                   log |-> base @@ [branch |-> "commit", cout |-> <<>>]]
             ELSE [object |-> Rejected(cleared, stamp),
                   log |-> base @@ [branch |-> "reject",
                                    cout |-> DynamicsReport(r, new, dynConf)]]

\* variant: a registration that does not converge ends the loop
RECURSIVE TrackLoopBreak(_, _, _, _, _)
TrackLoopBreak(i, objects, stamp, aligns, log) ==
  IF i > Len(objects) THEN [objects |-> objects, log |-> log]
  ELSE Bind(TrackObject(objects[i], stamp, aligns[i]),
            LAMBDA r :
              IF r.log.branch = "continue"
              THEN [objects |-> [objects EXCEPT ![i] = r.object],
                    log |-> Append(log, r.log)]
              ELSE TrackLoopBreak(i + 1, [objects EXCEPT ![i] = r.object], stamp,
                                  aligns, Append(log, r.log)))

RECURSIVE TrackLoop(_, _, _, _, _)
TrackLoop(i, objects, stamp, aligns, log) ==
  IF i > Len(objects) THEN [objects |-> objects, log |-> log]
  ELSE Bind(TrackObject(objects[i], stamp, aligns[i]),
            LAMBDA r : TrackLoop(i + 1, [objects EXCEPT ![i] = r.object], stamp,
                                 aligns, Append(log, r.log)))

---------------------------------------------------------------------------
(* ObjectTracker::runICP, lines 142-263 *)

NotInvoked(objects) == [objects |-> objects, ret |-> FALSE, log |-> <<>>]

\* variant: the flag is assigned the result of this call's attempt alone
InitializeOnceAssign(initialized, objects, markers) ==
  Bind(IF initialized THEN NotInvoked(objects) ELSE initialize(objects, markers),
       LAMBDA ini :
         [initialized |-> ini.ret,
          objects |-> ini.objects,
          initCalls |-> IF initialized THEN 0 ELSE 1,
          initRet |-> ini.ret,
          log |-> ini.log])

\* line 146: m_initialized = m_initialized || initialize(markers)
InitializeOnce(initialized, objects, markers) ==
  Bind(IF initialized THEN NotInvoked(objects) ELSE initialize(objects, markers),
       LAMBDA ini :
         [initialized |-> initialized \/ ini.ret,
          objects |-> ini.objects,
          initCalls |-> IF initialized THEN 0 ELSE 1,
          initRet |-> ini.ret,
          log |-> ini.log])

\* lines 147-151
InitFailedPrinted(initialized) == ~initialized

\* what one call read, computed and printed
CallLog(stamp, started, tracked) ==
  [stamp |-> stamp,
   initCalls |-> started.initCalls,
   initRet |-> started.initRet,
   initFailedPrinted |-> InitFailedPrinted(started.initialized),
   init |-> started.log,
   entry |-> [i \in 1..Len(started.objects) |-> started.objects[i].m_lastTransformation],
   track |-> tracked.log]

---------------------------------------------------------------------------
(* Inputs of one frame: what the external primitives return on its cloud *)

RECURSIVE Product(_)
Product(sets) ==
  IF sets = <<>> THEN {<<>>}
  ELSE {<<h>> \o t : h \in Head(sets), t \in Product(Tail(sets))}

NonConverged == [converged |-> FALSE, final |-> Origin]

Converged(T) == [converged |-> TRUE, final |-> T]

IcpResults == {NonConverged} \cup {Converged(T) : T \in Poses}

CoarseIcpResults == {NonConverged} \cup {Converged(T) : T \in CoarsePoses}

Hit(err, T) == [err |-> err, final |-> T, converged |-> TRUE]

\* a cloud on which yaw hypotheses a and b find correspondences
Profile(a, ra, b, rb) == [a |-> a, ra |-> ra, b |-> b, rb |-> rb]

YawProfiles ==
  { Profile(3, NoCorrespondence, 12, NoCorrespondence),
    Profile(3, Hit(2, Axis("x", 1)), 12, Hit(1, Axis("yaw", 1))),
    Profile(3, Hit(1, Axis("x", 1)), 12, Hit(1, Axis("yaw", 1))) }

\* a run that did not converge still has a final transformation and a score
Miss(err, T) == [err |-> err, final |-> T, converged |-> FALSE]

RunsTo(T) == {NoCorrespondence} \cup {Hit(e, T) : e \in 1..2} \cup {Miss(e, T) : e \in 1..2}

\* the first and the last hypothesis, or two in the middle, find something
RichYawProfiles ==
  { Profile(ab[1], ra, ab[2], rb) :
      ab \in {<<0, N_YAW - 1>>, <<3, 12>>},
      ra \in RunsTo(Axis("x", 1)), rb \in RunsTo(Axis("yaw", 1)) }

OneYawProfile == { Profile(3, Hit(2, Origin), 12, Hit(1, Axis("x", 1))) }

SqrDists == {INIT_MAX_HAUSDORFF_DIST2, INIT_MAX_HAUSDORFF_DIST2 + 1}

\* centroids of the markers nearest to an object's position, lines 95-107
Translation(x, y, z) == [x |-> x, y |-> y, z |-> z]

Centers == {Translation(1, 0, 0), Translation(0, 2, 1)}

OneCenter == {Translation(1, 0, 0)}

InitInputs(objects, profiles, sqrDists, centers) ==
  Product([i \in 1..Len(objects) |->
            {[aligns |-> p, sqrDist |-> d, center |-> c] :
               p \in profiles, c \in centers,
               d \in [1..MarkerConfigurations[objects[i].m_markerConfigurationIdx]
                        -> sqrDists]}])

TrackInputs(objects, results) == [1..Len(objects) -> results]

---------------------------------------------------------------------------
(* Construction, lines 20-30 and 44-54 *)

NoCall ==
  [stamp |-> Epoch, initCalls |-> 0, initRet |-> FALSE, initFailedPrinted |-> FALSE,
   init |-> <<>>, entry |-> <<>>, track |-> <<>>]

\* the clock reading when the objects and the tracker are constructed: some
\* time after the clock's epoch
Constructed == Epoch + 1

ObjectTracker(objects) ==
  /\ m_objects = objects
  /\ m_initialized = FALSE
  /\ now = Constructed
  /\ call = NoCall

Init == ObjectTracker(<< Object(1, 1, Origin) >>)

InitInit ==
  ObjectTracker(<< Object(1, 1, Origin), Object(2, 2, Axis("x", 1)),
                   Object(1, 2, Axis("y", 1)) >>)

MultiInit == ObjectTracker(<< Object(1, 1, Origin), Object(1, 2, Axis("x", 1)) >>)

---------------------------------------------------------------------------
(* Actions *)

\* time passes between calls
TickTo(maxTime) ==
  /\ now < maxTime
  /\ now' = now + 1
  /\ UNCHANGED <<m_initialized, m_objects, call>>

\* ObjectTracker::update(pointCloud), lines 56-60: one whole runICP call,
\* lines 142-263
UpdateWith(profiles, sqrDists, centers, results) ==
  \E stamp \in {now} :
  \E markers \in (IF m_initialized THEN {<<>>} ELSE InitInputs(m_objects, profiles, sqrDists, centers)) :
  \E started \in {InitializeOnce(m_initialized, m_objects, markers)} :
  \E aligns \in TrackInputs(m_objects, results) :
  \E tracked \in {TrackLoop(1, started.objects, stamp, aligns, <<>>)} :
    /\ m_initialized' = started.initialized
    /\ m_objects' = tracked.objects
    /\ call' = CallLog(stamp, started, tracked)
    /\ UNCHANGED now

Tick == TickTo(MaxTime)

Update == UpdateWith(YawProfiles, SqrDists, OneCenter, IcpResults)

Next == Tick \/ Update

\* one object, registration results over all of Poses
Spec == Init /\ [][Next]_vars

\* three objects, every frame's tracking registration fails to converge
InitTick == TickTo(MaxTime)

InitUpdate == UpdateWith(OneYawProfile, SqrDists, OneCenter, {NonConverged})

InitNext == InitTick \/ InitUpdate

InitSpec == InitInit /\ [][InitNext]_vars

\* two objects, registration results over CoarsePoses
MultiTick == TickTo(MultiMaxTime)

MultiUpdate == UpdateWith(OneYawProfile, SqrDists, OneCenter, CoarseIcpResults)

MultiNext == MultiTick \/ MultiUpdate

MultiSpec == MultiInit /\ [][MultiNext]_vars

\* one object, every outcome of the yaw search, tracking registration fails
YawTick == TickTo(MultiMaxTime)

YawUpdate == UpdateWith(RichYawProfiles, SqrDists, Centers, {NonConverged})

YawNext == YawTick \/ YawUpdate

YawSpec == Init /\ [][YawNext]_vars

---------------------------------------------------------------------------
(* Vocabulary of the properties *)

Objs == DOMAIN m_objects

\* an update() call has been made
Called == call.track # <<>>

\* a step of update(): the clock reading is the one the call took
UpdateStep == now' = now /\ call'.track # <<>>

DynConf(i) == DynamicsConfigurations[m_objects[i].m_dynamicsConfigurationIdx]

\* |d / dt| is strictly below bound
Below(d, dt, bound) == dt > 0 /\ Abs(d) < bound * dt

\* the change of coordinate c that registration run t implies
Change(t, c) == t.final[c] - t.guess[c]

LinearWithin(t, d) ==
  /\ Below(Change(t, "x"), t.dt, d.maxXVelocity)
  /\ Below(Change(t, "y"), t.dt, d.maxYVelocity)
  /\ Below(Change(t, "z"), t.dt, d.maxZVelocity)

RollPitchRatesWithin(t, d) ==
  /\ Below(Change(t, "roll"), t.dt, d.maxRollRate)
  /\ Below(Change(t, "pitch"), t.dt, d.maxPitchRate)

YawRateWithin(t, d) == Below(Change(t, "yaw"), t.dt, d.maxYawRate)

AttitudeWithin(t, d) ==
  /\ Abs(t.final.roll) < d.maxRoll
  /\ Abs(t.final.pitch) < d.maxPitch

AllEightWithin(t, d) ==
  /\ LinearWithin(t, d)
  /\ RollPitchRatesWithin(t, d)
  /\ YawRateWithin(t, d)
  /\ AttitudeWithin(t, d)

\* the frame was rejected for the object of registration run t
RejectedRun(t) == t.branch \in {"continue", "reject"}

\* object o holds exactly the result of run t, accepted at time stamp
Holds(o, t, stamp) ==
  /\ o.m_lastTransformation = t.final
  /\ o.m_lastValidTransform = stamp
  /\ o.m_lastTransformationValid

\* object o holds the pose and time stamp the loop found it with, flag cleared
Kept(o, t, stamp) ==
  /\ o.m_lastTransformation = t.guess
  /\ o.m_lastValidTransform = stamp - t.dt
  /\ ~o.m_lastTransformationValid

---------------------------------------------------------------------------
(* C1 *)

\* C1: whenever update() rejects the frame for an object (no convergence, or
\* the dynamics gate failed), the object's transformation() after the call is
\* the one before the call and lastTransformationValid() is false; and a call
\* changes lastTransformation only to a pose it accepted.  Claimed for every
\* session state, the not yet initialized ones included.
C1_IdempotentRejection ==
  [][UpdateStep =>
       \A i \in Objs :
         /\ RejectedRun(call'.track[i]) =>
              /\ transformation(m_objects'[i]) = transformation(m_objects[i])
              /\ ~lastTransformationValid(m_objects'[i])
         /\ transformation(m_objects'[i]) # transformation(m_objects[i]) =>
              /\ call'.track[i].branch = "commit"
              /\ transformation(m_objects'[i]) = call'.track[i].final]_vars

---------------------------------------------------------------------------
(* C2 *)

\* C2: in the tracking loop the new pose is committed (lastTransformation
\* replaced, lastValidTimestamp set to the frame's stamp, flag set) if and only
\* if the registration converged and all eight quantities are strictly below
\* their bounds; otherwise the object is left as the loop found it.
C2_DynamicsGate ==
  Called =>
    \A i \in Objs :
      LET t == call.track[i]
      IN IF t.converged /\ AllEightWithin(t, DynConf(i))
         THEN Holds(m_objects[i], t, call.stamp)
         ELSE Kept(m_objects[i], t, call.stamp)

\* an accepted frame that moved the object in x, one unit short of the bound
C2_Witness ==
  /\ Called
  /\ \E i \in Objs :
       LET t == call.track[i]
       IN /\ t.branch = "commit"
          /\ Change(t, "x") # 0
          /\ Abs(Change(t, "x")) + 1 = DynConf(i).maxXVelocity * t.dt

---------------------------------------------------------------------------
(* C3 *)

GoodDistance(d) == d <= INIT_MAX_HAUSDORFF_DIST2

ObjectFits(i) ==
  \A k \in DOMAIN call.init[i].sqrDist : GoodDistance(call.init[i].sqrDist[k])

\* C3: initialize() returns true if and only if every nominal marker of every
\* object has its nearest observed marker within the squared-distance
\* threshold; every object is searched and validated whether or not an earlier
\* one failed.
C3_AllOrNothing ==
  call.initCalls = 1 =>
    /\ DOMAIN call.init = Objs
    /\ call.initRet <=> \A i \in Objs : ObjectFits(i)

\* the first of three objects fails validation, the other two pass, and the
\* call reports failure
C3_Witness ==
  /\ call.initCalls = 1
  /\ Len(m_objects) = 3
  /\ ~ObjectFits(1) /\ ObjectFits(2) /\ ObjectFits(3)
  /\ ~call.initRet

---------------------------------------------------------------------------
(* C4 *)

\* C4: the session starts uninitialized; an update() made while uninitialized
\* invokes initialize() exactly once; the flag is set exactly when that
\* invocation returns true; once set it stays set and initialize() is not
\* invoked again.
C4_InitializedFlag ==
  [][/\ m_initialized => m_initialized'
     /\ call = NoCall => ~m_initialized
     /\ UpdateStep =>
          /\ call'.initCalls = (IF m_initialized THEN 0 ELSE 1)
          /\ ~m_initialized => (m_initialized' <=> call'.initRet)]_vars

\* an update() on an initialized session that did not invoke initialize()
C4_Witness == Called /\ m_initialized /\ call.initCalls = 0

---------------------------------------------------------------------------
(* C5 *)

\* C5: an accepted frame leaves lastValidTimestamp strictly greater than it
\* was before the call; a frame whose stamp equals the object's
\* lastValidTimestamp is never accepted.
C5_MonotonicTimestamp ==
  [][UpdateStep =>
       \A i \in Objs :
         /\ call'.track[i].branch = "commit" =>
              m_objects'[i].m_lastValidTransform > m_objects[i].m_lastValidTransform
         /\ call'.stamp = m_objects[i].m_lastValidTransform =>
              call'.track[i].branch # "commit"]_vars

\* a converged frame stamped with the object's own lastValidTimestamp, after
\* an earlier acceptance
C5_Witness ==
  /\ Called
  /\ \E i \in Objs :
       /\ call.track[i].converged
       /\ call.track[i].dt = 0
       /\ m_objects[i].m_lastValidTransform > Epoch

---------------------------------------------------------------------------
(* C6 *)

\* the largest yaw change the registration results hold
LargeYawChange(t) == Abs(Change(t, "yaw")) = MaxCoord

\* C6 as claimed: a converged frame with a large yaw change is accepted as
\* soon as the three linear velocities, the roll and pitch rates and the
\* absolute roll and pitch are within bounds.
C6_UnboundedYaw ==
  Called =>
    \A i \in Objs :
      LET t == call.track[i]
      IN (/\ t.converged
          /\ LargeYawChange(t)
          /\ LinearWithin(t, DynConf(i))
          /\ RollPitchRatesWithin(t, DynConf(i))
          /\ AttitudeWithin(t, DynConf(i)))
         => t.branch = "commit"

\* C6 amended: such a frame is accepted if and only if the yaw rate is also
\* strictly below maxYawRate; the absolute yaw angle is not bounded.
C6_YawRateGated ==
  Called =>
    \A i \in Objs :
      LET t == call.track[i]
      IN (/\ t.converged
          /\ LinearWithin(t, DynConf(i))
          /\ RollPitchRatesWithin(t, DynConf(i))
          /\ AttitudeWithin(t, DynConf(i)))
         => (t.branch = "commit" <=> YawRateWithin(t, DynConf(i)))

\* a large yaw change that was accepted
C6_Witness ==
  /\ Called
  /\ \E i \in Objs :
       call.track[i].branch = "commit" /\ LargeYawChange(call.track[i])

---------------------------------------------------------------------------
(* C7 *)

\* C7: objects are constructed with the flag false, and after every update()
\* the flag of an object is true if and only if that call accepted a pose for
\* it.
C7_ValidityPerFrame ==
  \A i \in Objs :
    lastTransformationValid(m_objects[i])
      <=> (Called /\ call.track[i].branch = "commit")

\* an object accepted in an earlier frame, after a call that did not accept
C7_Witness ==
  /\ Called
  /\ \E i \in Objs :
       /\ m_objects[i].m_lastValidTransform > Epoch
       /\ RejectedRun(call.track[i])
       /\ ~lastTransformationValid(m_objects[i])

---------------------------------------------------------------------------
(* C8 *)

\* what object i must end the call with, from its own registration run alone
OwnOutcome(i) ==
  LET t == call.track[i]
  IN IF t.converged /\ AllEightWithin(t, DynConf(i))
     THEN Holds(m_objects[i], t, call.stamp)
     ELSE Kept(m_objects[i], t, call.stamp)

---------------------------------------------------------------------------
(* C9 *)

\* C9: in an update() whose initialization attempt fails the session stays
\* uninitialized and no object is accepted: no flag is true and no
\* lastValidTimestamp is that call's stamp by acceptance.
C9_InitBeforeTracking ==
  (call.initCalls = 1 /\ ~call.initRet) =>
    /\ ~m_initialized
    /\ \A i \in Objs :
         /\ ~lastTransformationValid(m_objects[i])
         /\ call.track[i].branch # "commit"

---------------------------------------------------------------------------
(* C10 *)

\* C10: an update() changes an object's lastValidTimestamp only if it sets the
\* object's flag; a frame rejected for non-convergence or by the gate leaves
\* it unchanged, also in a call that runs initialize().
C10_TimestampFrame ==
  [][UpdateStep =>
       \A i \in Objs :
         /\ m_objects'[i].m_lastValidTransform # m_objects[i].m_lastValidTransform
              => m_objects'[i].m_lastTransformationValid
         /\ RejectedRun(call'.track[i]) =>
              m_objects'[i].m_lastValidTransform = m_objects[i].m_lastValidTransform]_vars

\* a gate rejection in a call that ran initialize(), of an object accepted before
C10_Witness ==
  /\ Called
  /\ call.initCalls = 1
  /\ \E i \in Objs :
       /\ call.track[i].branch = "reject"
       /\ m_objects[i].m_lastValidTransform > Epoch

---------------------------------------------------------------------------
(* C11 *)

\* no frame of the object has been accepted since its construction
NeverAccepted(o) == o.m_lastValidTransform = Epoch

\* C11: for an object that has never had a frame accepted, the dt computed in
\* the tracking loop is the time elapsed since the object was constructed.
C11_ElapsedSinceConstruction ==
  [][UpdateStep =>
       \A i \in Objs :
         NeverAccepted(m_objects[i]) =>
           call'.track[i].dt = call'.stamp - Constructed]_vars

---------------------------------------------------------------------------
(* C12 *)

\* an update() call that runs initialize()
InitStep == UpdateStep /\ call'.initCalls = 1

\* what the h-th registration run of the call's attempt returned for object i
RunOf(c, i, h) == IcpAlign(c.init[i].aligns, h)

\* the lowest score among the runs of object i that converged
ConvergedErrs(c, i) ==
  {DBL_MAX} \cup {RunOf(c, i, h).err : h \in {g \in Hypotheses : RunOf(c, i, g).converged}}

LeastOf(S) == CHOOSE e \in S : \A f \in S : e <= f

\* C12: a yaw hypothesis whose registration run did not converge never updates
\* the best error and its transform is never written as the candidate: the
\* best error is the lowest score of the converged runs, and the pose after
\* initialize() is the pose before it or the transform of a converged run; an
\* object fails initialization only through the distance validation.
C12_ConvergedOnly ==
  [][InitStep =>
       /\ \A i \in Objs :
            /\ call'.init[i].bestErr = LeastOf(ConvergedErrs(call', i))
            /\ \/ call'.entry[i] = m_objects[i].m_lastTransformation
               \/ \E h \in Hypotheses :
                    /\ RunOf(call', i, h).converged
                    /\ RunOf(call', i, h).final = call'.entry[i]
       /\ ~call'.initRet <=>
            \E i \in Objs : \E k \in DOMAIN call'.init[i].sqrDist :
              BadFit(call'.init[i].sqrDist[k])]_vars

---------------------------------------------------------------------------
(* C13 *)

\* the seed of yaw hypothesis h about the centroid: yaw h * (2 * M_PI / N_YAW),
\* no roll, no pitch
YawSeed(center, h) == getTransformation(center.x, center.y, center.z, 0, 0, h)

\* h has the lowest score of the call's runs for object i, and is the earliest
\* hypothesis with that score
LowestEarliest(c, i, h) ==
  /\ \A g \in Hypotheses : RunOf(c, i, h).err <= RunOf(c, i, g).err
  /\ \A g \in Hypotheses : g < h => RunOf(c, i, g).err > RunOf(c, i, h).err

\* C13: initialize() evaluates exactly N_YAW hypotheses for every object, the
\* i-th seeded with the centroid of the nearest markers as translation, yaw
\* i * (2 * M_PI / N_YAW) and zero roll and pitch; after the search the pose of
\* the object is the refined transform of the hypothesis with the lowest
\* score, the earliest one on a tie.
C13_YawSearch ==
  [][InitStep =>
       \A i \in Objs :
         /\ call'.init[i].tried =
              [n \in 1..N_YAW |-> YawSeed(call'.init[i].center, n - 1)]
         /\ \E h \in Hypotheses :
              /\ LowestEarliest(call', i, h)
              /\ call'.init[i].bestErr = RunOf(call', i, h).err
              /\ call'.entry[i] = RunOf(call', i, h).final]_vars

---------------------------------------------------------------------------
(* C14 *)

---------------------------------------------------------------------------
(* C15 *)

\* the largest of the three linear velocity bounds of a dynamics configuration
MaxLinearVelocity(d) ==
  LeastOf({v \in {d.maxXVelocity, d.maxYVelocity, d.maxZVelocity} :
             /\ v >= d.maxXVelocity /\ v >= d.maxYVelocity /\ v >= d.maxZVelocity})

\* C15: in every pass of the tracking loop the maximum correspondence distance
\* set before the registration is the maximum linear velocity of the object's
\* own dynamics configuration times dt, dt being the call's stamp minus the
\* object's own lastValidTimestamp.
C15_CorrespondenceRadius ==
  [][UpdateStep =>
       \A i \in Objs :
         /\ call'.track[i].dt = call'.stamp - m_objects[i].m_lastValidTransform
         /\ call'.track[i].maxCorrespondenceDistance =
              MaxLinearVelocity(DynConf(i)) * call'.track[i].dt]_vars

---------------------------------------------------------------------------
(* C16 *)

\* the six rates and the two angles the gate tests, by name
Quantities == <<"vx", "vy", "vz", "wroll", "wpitch", "wyaw", "roll", "pitch">>

BoundOf(d, q) ==
  CASE q = "vx" -> d.maxXVelocity [] q = "vy" -> d.maxYVelocity
    [] q = "vz" -> d.maxZVelocity [] q = "wroll" -> d.maxRollRate
    [] q = "wpitch" -> d.maxPitchRate [] q = "wyaw" -> d.maxYawRate
    [] q = "roll" -> d.maxRoll [] q = "pitch" -> d.maxPitch

CoordOf(q) ==
  CASE q = "vx" -> "x" [] q = "vy" -> "y" [] q = "vz" -> "z"
    [] q = "wroll" -> "roll" [] q = "wpitch" -> "pitch" [] q = "wyaw" -> "yaw"
    [] q = "roll" -> "roll" [] q = "pitch" -> "pitch"

IsAngle(q) == q \in {"roll", "pitch"}

\* the absolute value of quantity q of run t is at least its bound: an angle of
\* the new pose, or a change divided by dt (unbounded when dt = 0)
AtLeastBound(t, d, q) ==
  IF IsAngle(q) THEN Abs(t.final[q]) >= BoundOf(d, q)
  ELSE \/ t.dt # 0 /\ Abs(Change(t, CoordOf(q))) >= BoundOf(d, q) * Abs(t.dt)
       \/ t.dt = 0 /\ Change(t, CoordOf(q)) # 0

\* the quantities a report names, in the order written
Named(cout) == [k \in 1..(Len(cout) - 1) |-> cout[k + 1].text]

RECURSIVE Exceeding(_, _, _)
Exceeding(t, d, k) ==
  IF k > Len(Quantities) THEN <<>>
  ELSE (IF AtLeastBound(t, d, Quantities[k]) THEN <<Quantities[k]>> ELSE <<>>)
       \o Exceeding(t, d, k + 1)

\* C16: when the gate rejects a converged frame the report names exactly the
\* quantities whose absolute value is at least the bound, each with the
\* bound, and so names at least one; an accepted frame reports nothing.
C16_RejectionReport ==
  Called =>
    \A i \in Objs :
      LET t == call.track[i]
          d == DynConf(i)
      IN /\ t.branch = "reject" =>
              /\ t.cout[1] = Text("Dynamic check failed")
              /\ Named(t.cout) = Exceeding(t, d, 1)
              /\ \A k \in 2..Len(t.cout) : t.cout[k].bound = BoundOf(d, t.cout[k].text)
              /\ Len(t.cout) >= 2
         /\ t.branch = "commit" => t.cout = <<>>

---------------------------------------------------------------------------
(* C17 *)

\* C17: in an update() that starts with the session initialized, an object
\* whose flag is false after the call has the pose and the time stamp it had
\* before the call, and an object whose flag is true holds the converged
\* registration result of the call and the call's stamp.
C17_PoseStability ==
  [][(UpdateStep /\ m_initialized) =>
       \A i \in Objs :
         /\ ~lastTransformationValid(m_objects'[i]) =>
              /\ transformation(m_objects'[i]) = transformation(m_objects[i])
              /\ m_objects'[i].m_lastValidTransform = m_objects[i].m_lastValidTransform
         /\ lastTransformationValid(m_objects'[i]) =>
              /\ call'.track[i].converged
              /\ transformation(m_objects'[i]) = call'.track[i].final
              /\ m_objects'[i].m_lastValidTransform = call'.stamp]_vars

\* a call on an initialized session in which one object is moved by an
\* accepted registration result and the other, whose registration proposed a
\* different pose, is rejected and keeps its own
C17_Witness ==
  /\ Called /\ call.initCalls = 0
  /\ \E i, j \in Objs :
       /\ call.track[i].branch = "commit"
       /\ call.track[i].final # call.track[i].guess
       /\ Holds(m_objects[i], call.track[i], call.stamp)
       /\ call.track[j].branch = "reject"
       /\ call.track[j].final # call.track[j].guess
       /\ Kept(m_objects[j], call.track[j], call.stamp)

---------------------------------------------------------------------------
(* C18 *)

\* C18: over consecutive rejected frames of an object its pose and time stamp
\* stay fixed: at the later frame dt has grown by the time between the two
\* stamps, the correspondence radius is the velocity bound times that dt, and
\* the rates the gate tests are taken from the same pose as at the frame
\* before, the last accepted one, over that dt.
C18_RatesFromLastAccepted ==
  [][(UpdateStep /\ Called) =>
       \A i \in Objs :
         (RejectedRun(call.track[i]) /\ RejectedRun(call'.track[i])) =>
           /\ transformation(m_objects'[i]) = transformation(m_objects[i])
           /\ m_objects'[i].m_lastValidTransform = m_objects[i].m_lastValidTransform
           /\ call'.track[i].guess = call.track[i].guess
           /\ call'.track[i].dt = call.track[i].dt + (call'.stamp - call.stamp)
           /\ call'.track[i].maxCorrespondenceDistance =
                DynConf(i).maxXVelocity * call'.track[i].dt
           /\ call'.track[i].converged => ~AllEightWithin(call'.track[i], DynConf(i))]_vars

====
